---------------------------- MODULE Spec2Model ----------------------------
(***************************************************************************)
(* Model of the stats plugin module of src/src/basic_statistics.rs:        *)
(* max / min (pair and array forms), bounds, maxk and mink over rhai       *)
(* Dynamic values.                                                         *)
(*                                                                         *)
(* A Dynamic is a tagged value.  An INT carries an i64, a FLOAT carries an *)
(* f64, anything else (here: a string) carries neither.  An f64 is either  *)
(* NaN or a finite number, which the model counts in halves (h = 3 is 1.5) *)
(* so that floats exist that no integer equals.                            *)
(*                                                                         *)
(* A call ends in one of three ways: Ok(value), Err(ErrorArithmetic) (the  *)
(* only error the code constructs) or a panic (an unwrap of Err/None, an   *)
(* index out of bounds, an arithmetic overflow in a build with overflow    *)
(* checks).                                                                *)
(***************************************************************************)
EXTENDS Integers, Sequences, FiniteSets

\* ------------------------------------------------------------------ bounds
MaxLen == 3
MaxVal == 1
\* usize is 64 bits wide in the program; the model keeps the wrap-around of
\* (as usize) and of subtraction at a width its integers can hold.
UsizeBits == 16

UsizeModulus == 2 ^ UsizeBits

\* ------------------------------------------------------------------ state
VARIABLES
    data,             \* the script's array, handed to the array functions
    kArg,             \* the k of the last maxk / mink call
    argA, argB,       \* the scalars of the last pairwise call
    op,               \* the last function called
    res,              \* how that call ended
    overflow_checks   \* the build: TRUE = arithmetic overflow panics (debug)

vars == <<data, kArg, argA, argB, op, res, overflow_checks>>

\* ------------------------------------------------------------------ values
IntVals == (-1) .. MaxVal
\* finite f64 values, in halves: -0.5, 0.0, 0.5, ...
HalfVals == (-1) .. MaxVal

DynInt(n) == [tag |-> "INT", n |-> n, nan |-> FALSE]
DynFloat(h) == [tag |-> "FLOAT", n |-> h, nan |-> FALSE]
DynNaN == [tag |-> "FLOAT", n |-> 0, nan |-> TRUE]
DynStr == [tag |-> "STR", n |-> 0, nan |-> FALSE]

Dynamics ==
    {DynInt(n) : n \in IntVals} \cup {DynFloat(h) : h \in HalfVals}
        \cup {DynNaN, DynStr}

RECURSIVE SeqsUpTo(_, _)
SeqsUpTo(S, n) ==
    IF n = 0 THEN {<<>>}
    ELSE LET shorter == SeqsUpTo(S, n - 1)
         IN shorter \cup {Append(s, x) : s \in {t \in shorter : Len(t) = n - 1}, x \in S}

Arrays == SeqsUpTo(Dynamics, MaxLen)
KVals == (-1) .. (MaxLen + 1)

\* ------------------------------------------------------------------ rhai Dynamic
\* el.is::<f64>()
is_f64(d) == d.tag = "FLOAT"
\* el.is::<i64>()
is_i64(d) == d.tag = "INT"

\* el.as_float(): Ok(f64) for a FLOAT, Err(type name) otherwise
as_float(d) ==
    IF d.tag = "FLOAT" THEN [ok |-> TRUE, v |-> [nan |-> d.nan, h |-> d.n]]
    ELSE [ok |-> FALSE, v |-> [nan |-> FALSE, h |-> 0]]

\* el.as_int(): Ok(i64) for an INT, Err(type name) otherwise
as_int(d) ==
    IF d.tag = "INT" THEN [ok |-> TRUE, v |-> d.n]
    ELSE [ok |-> FALSE, v |-> 0]

\* Dynamic::from(x: f64)
from_f64(x) == [tag |-> "FLOAT", n |-> (IF x.nan THEN 0 ELSE x.h), nan |-> x.nan]
\* Dynamic::from(x: i64)
from_i64(x) == [tag |-> "INT", n |-> x, nan |-> FALSE]

\* ------------------------------------------------------------------ outcomes
TypeErrorMsg == "The elements of the input must either be INT or FLOAT."

OkScalar(d) == [st |-> "Ok", kind |-> "scalar", val |-> <<d>>, why |-> ""]
OkArray(v) == [st |-> "Ok", kind |-> "array", val |-> v, why |-> ""]
ErrArithmetic == [st |-> "Err", kind |-> "ErrorArithmetic", val |-> <<>>, why |-> TypeErrorMsg]
Panic(why) == [st |-> "Panic", kind |-> "panic", val |-> <<>>, why |-> why]
NoResult == [st |-> "None", kind |-> "none", val |-> <<>>, why |-> ""]

PanicIndex == "index out of bounds"
PanicUnwrapErr == "unwrap on Err"
PanicUnwrapNone == "unwrap on None"
PanicOverflow == "attempt to subtract with overflow"

\* ------------------------------------------------------------------ ordering
\* i64's Ord::cmp, used by y.sort()
cmp_i64(x, y) == IF x < y THEN "Less" ELSE IF x = y THEN "Equal" ELSE "Greater"

\* f64's partial_cmp: None as soon as one side is NaN
partial_cmp(x, y) ==
    IF x.nan \/ y.nan THEN "None"
    ELSE IF x.h < y.h THEN "Less" ELSE IF x.h = y.h THEN "Equal" ELSE "Greater"

Front(s) == SubSeq(s, 1, Len(s) - 1)
Last(s) == s[Len(s)]

\* One insertion step of the stable sort: x moves left past every element it is
\* Less than.
RECURSIVE insert_i64(_, _)
insert_i64(sorted, x) ==
    IF Len(sorted) = 0 THEN <<x>>
    ELSE IF cmp_i64(x, Last(sorted)) = "Less"
         THEN Append(insert_i64(Front(sorted), x), Last(sorted))
         ELSE Append(sorted, x)

\* y.sort() on a Vec<i64>: ascending, stable
RECURSIVE sort(_)
sort(y) ==
    IF Len(y) <= 1 THEN y
    ELSE insert_i64(sort(Front(y)), Last(y))

\* The same step under a comparator that can panic: the result is [panic, y],
\* panic = "" when every comparison succeeded.
RECURSIVE insert_f64(_, _)
insert_f64(sorted, x) ==
    IF Len(sorted) = 0 THEN [panic |-> "", y |-> <<x>>]
    ELSE LET c == partial_cmp(x, Last(sorted))
         IN IF c = "None" THEN [panic |-> PanicUnwrapNone, y |-> <<>>]
            ELSE IF c = "Less"
                 THEN LET r == insert_f64(Front(sorted), x)
                      IN IF r.panic # "" THEN r
                         ELSE [panic |-> "", y |-> Append(r.y, Last(sorted))]
                 ELSE [panic |-> "", y |-> Append(sorted, x)]

\* y.sort_by(|a, b| a.partial_cmp(b).unwrap()) on a Vec<f64>: the comparator
\* panics on the first comparison that involves a NaN; a slice of length 0 or 1
\* is never compared.
RECURSIVE sort_by(_)
sort_by(y) ==
    IF Len(y) <= 1 THEN [panic |-> "", y |-> y]
    ELSE LET r == sort_by(Front(y))
         IN IF r.panic # "" THEN r ELSE insert_f64(r.y, Last(y))

\* ------------------------------------------------------------------ collect
\* arr.iter().map(|el| el.as_float().unwrap()).collect::<Vec<f64>>()
collect_f64(arr) ==
    IF \E i \in DOMAIN arr : ~as_float(arr[i]).ok
    THEN [panic |-> PanicUnwrapErr, y |-> <<>>]
    ELSE [panic |-> "", y |-> [i \in DOMAIN arr |-> as_float(arr[i]).v]]

\* arr.iter().map(|el| el.as_int().unwrap()).collect::<Vec<i64>>()
collect_i64(arr) ==
    IF \E i \in DOMAIN arr : ~as_int(arr[i]).ok
    THEN [panic |-> PanicUnwrapErr, y |-> <<>>]
    ELSE [panic |-> "", y |-> [i \in DOMAIN arr |-> as_int(arr[i]).v]]

\* The locals of a function body after "let mut y = ...collect(); y.sort...":
\* arr, which was only read through iter(), and the sorted working buffer y.
sorted_f64(arr) ==
    LET c == collect_f64(arr)
        s == sort_by(c.y)
    IN IF c.panic # "" THEN [panic |-> c.panic, arr |-> arr, y |-> <<>>]
       ELSE IF s.panic # "" THEN [panic |-> s.panic, arr |-> arr, y |-> <<>>]
       ELSE [panic |-> "", arr |-> arr, y |-> s.y]

\* Variant: the sort runs on arr itself and y is read back from it.
sorted_i64_in_place(arr) ==
    LET c == collect_i64(arr)
    IN IF c.panic # "" THEN [panic |-> c.panic, arr |-> arr, y |-> <<>>]
       ELSE [panic |-> "",
             arr |-> [i \in DOMAIN arr |-> from_i64(sort(c.y)[i])],
             y |-> sort(c.y)]

sorted_i64(arr) ==
    LET c == collect_i64(arr)
    IN IF c.panic # "" THEN [panic |-> c.panic, arr |-> arr, y |-> <<>>]
       ELSE [panic |-> "", arr |-> arr, y |-> sort(c.y)]

\* ------------------------------------------------------------------ classify
\* Variant: every element is inspected, and a sequence that is not of one
\* numeric kind throughout is a TypeError.
classify_every_element(arr) ==
    IF Len(arr) = 0 THEN "Panic"
    ELSE IF \A i \in DOMAIN arr : is_f64(arr[i]) THEN "Float"
    ELSE IF \A i \in DOMAIN arr : is_i64(arr[i]) THEN "Integer"
    ELSE "TypeError"

\* The if / else if / else on arr[0] that opens every array function.  arr[0]
\* on an empty Vec panics.
classify(arr) ==
    IF Len(arr) = 0 THEN "Panic"
    ELSE IF is_f64(arr[1]) THEN "Float"
    ELSE IF is_i64(arr[1]) THEN "Integer"
    ELSE "TypeError"

\* Variant: the index of min taken for max.
last_of_first(y) == y[1]

\* y[y.len() - 1]
last_of(y) == y[Len(y)]
\* y[0]
first_of(y) == y[1]

\* ------------------------------------------------------------------ max / min
array_max(arr) ==
    LET kind == classify(arr)
    IN CASE kind = "Panic" -> [arr |-> arr, ret |-> Panic(PanicIndex)]
         [] kind = "Float" ->
              LET s == sorted_f64(arr)
              IN IF s.panic # "" THEN [arr |-> arr, ret |-> Panic(s.panic)]
                 ELSE [arr |-> s.arr, ret |-> OkScalar(from_f64(last_of(s.y)))]
         [] kind = "Integer" ->
              LET s == sorted_i64(arr)
              IN IF s.panic # "" THEN [arr |-> arr, ret |-> Panic(s.panic)]
                 ELSE [arr |-> s.arr, ret |-> OkScalar(from_i64(last_of(s.y)))]
         [] OTHER -> [arr |-> arr, ret |-> ErrArithmetic]

array_min(arr) ==
    LET kind == classify(arr)
    IN CASE kind = "Panic" -> [arr |-> arr, ret |-> Panic(PanicIndex)]
         [] kind = "Float" ->
              LET s == sorted_f64(arr)
              IN IF s.panic # "" THEN [arr |-> arr, ret |-> Panic(s.panic)]
                 ELSE [arr |-> s.arr, ret |-> OkScalar(from_f64(first_of(s.y)))]
         [] kind = "Integer" ->
              LET s == sorted_i64(arr)
              IN IF s.panic # "" THEN [arr |-> arr, ret |-> Panic(s.panic)]
                 ELSE [arr |-> s.arr, ret |-> OkScalar(from_i64(first_of(s.y)))]
         [] OTHER -> [arr |-> arr, ret |-> ErrArithmetic]

\* Result::unwrap(): the Ok value, or a panic on Err.  A panic inside the call
\* has already unwound through the caller.
unwrap(ret) == IF ret.st = "Err" THEN Panic(PanicUnwrapErr) ELSE ret

\* array_max(vec![a, b]).unwrap()
gen_max(a, b) == unwrap(array_max(<<a, b>>).ret)

\* array_min(vec![a, b]).unwrap()
gen_min(a, b) == unwrap(array_min(<<a, b>>).ret)

\* Variant: the two elements in the other order.
bounds_vec_swapped(lo, hi) == <<hi, lo>>

\* vec![Dynamic::from(min), Dynamic::from(max)]; Dynamic::from of a Dynamic is
\* that Dynamic
bounds_vec(lo, hi) == <<lo, hi>>

\* Both calls get arr.clone(), so arr itself is only read.
bounds(arr) ==
    LET lo == unwrap(array_min(arr).ret)
        hi == unwrap(array_max(arr).ret)
    IN IF lo.st = "Panic" THEN [arr |-> arr, ret |-> lo]
       ELSE IF hi.st = "Panic" THEN [arr |-> arr, ret |-> hi]
       ELSE [arr |-> arr, ret |-> OkArray(bounds_vec(lo.val[1], hi.val[1]))]

\* ------------------------------------------------------------------ maxk / mink
\* k as usize: a negative i64 wraps to the top of the usize range
as_usize(n) == n % UsizeModulus

\* x - y on usize: panics on overflow where the build checks it, wraps where
\* it does not
usize_sub(x, y) ==
    IF y > x /\ overflow_checks THEN [panic |-> PanicOverflow, v |-> 0]
    ELSE [panic |-> "", v |-> (x - y) % UsizeModulus]

\* Variant: the range stops one short of the end of y.
maxk_range_short(len, n) ==
    LET start == usize_sub(len, as_usize(n))
    IN [panic |-> start.panic, start |-> start.v, end |-> len - 1]

\* (y.len() - (k as usize))..(y.len())
maxk_range(len, n) ==
    LET start == usize_sub(len, as_usize(n))
    IN [panic |-> start.panic, start |-> start.v, end |-> len]

\* Variant: an inclusive range, 0..=k.
mink_range_inclusive(len, n) == [panic |-> "", start |-> 0, end |-> as_usize(n) + 1]

\* (0 as usize)..(k as usize)
mink_range(len, n) == [panic |-> "", start |-> 0, end |-> as_usize(n)]

\* for idx in start..end { v.push(y[idx]) }: y[idx] panics past the end of y.
\* Indices are 0-based as in the source; v is what has been pushed so far.
RECURSIVE push_range(_, _, _, _)
push_range(y, idx, end, v) ==
    IF idx >= end THEN [panic |-> "", v |-> v]
    ELSE IF idx >= Len(y) THEN [panic |-> PanicIndex, v |-> v]
    ELSE push_range(y, idx + 1, end, Append(v, y[idx + 1]))

select_f64(s, r) ==
    IF s.panic # "" THEN [arr |-> s.arr, ret |-> Panic(s.panic)]
    ELSE IF r.panic # "" THEN [arr |-> s.arr, ret |-> Panic(r.panic)]
    ELSE LET p == push_range(s.y, r.start, r.end, <<>>)
         IN IF p.panic # "" THEN [arr |-> s.arr, ret |-> Panic(p.panic)]
            ELSE [arr |-> s.arr,
                  ret |-> OkArray([i \in DOMAIN p.v |-> from_f64(p.v[i])])]

select_i64(s, r) ==
    IF s.panic # "" THEN [arr |-> s.arr, ret |-> Panic(s.panic)]
    ELSE IF r.panic # "" THEN [arr |-> s.arr, ret |-> Panic(r.panic)]
    ELSE LET p == push_range(s.y, r.start, r.end, <<>>)
         IN IF p.panic # "" THEN [arr |-> s.arr, ret |-> Panic(p.panic)]
            ELSE [arr |-> s.arr,
                  ret |-> OkArray([i \in DOMAIN p.v |-> from_i64(p.v[i])])]

maxk(arr, k) ==
    LET kind == classify(arr)
    IN CASE kind = "Panic" -> [arr |-> arr, ret |-> Panic(PanicIndex)]
         [] kind = "Float" -> select_f64(sorted_f64(arr), maxk_range(Len(arr), k))
         [] kind = "Integer" -> select_i64(sorted_i64(arr), maxk_range(Len(arr), k))
         [] OTHER -> [arr |-> arr, ret |-> ErrArithmetic]

mink(arr, k) ==
    LET kind == classify(arr)
    IN CASE kind = "Panic" -> [arr |-> arr, ret |-> Panic(PanicIndex)]
         [] kind = "Float" -> select_f64(sorted_f64(arr), mink_range(Len(arr), k))
         [] kind = "Integer" -> select_i64(sorted_i64(arr), mink_range(Len(arr), k))
         [] OTHER -> [arr |-> arr, ret |-> ErrArithmetic]

\* ------------------------------------------------------------------ the calls
NoScalar == DynInt(0)

Init ==
    /\ data \in Arrays
    /\ overflow_checks \in BOOLEAN
    /\ kArg = 0
    /\ argA = NoScalar
    /\ argB = NoScalar
    /\ op = "none"
    /\ res = NoResult

\* max(data)
CallArrayMax ==
    LET r == array_max(data)
    IN /\ data' = r.arr
       /\ res' = r.ret
       /\ op' = "max"
       /\ kArg' = 0
       /\ UNCHANGED <<argA, argB, overflow_checks>>

\* min(data)
CallArrayMin ==
    LET r == array_min(data)
    IN /\ data' = r.arr
       /\ res' = r.ret
       /\ op' = "min"
       /\ kArg' = 0
       /\ UNCHANGED <<argA, argB, overflow_checks>>

\* bounds(data)
CallBounds ==
    LET r == bounds(data)
    IN /\ data' = r.arr
       /\ res' = r.ret
       /\ op' = "bounds"
       /\ kArg' = 0
       /\ UNCHANGED <<argA, argB, overflow_checks>>

\* maxk(data, n)
CallMaxk ==
    \E n \in KVals :
        LET r == maxk(data, n)
        IN /\ data' = r.arr
           /\ res' = r.ret
           /\ op' = "maxk"
           /\ kArg' = n
           /\ UNCHANGED <<argA, argB, overflow_checks>>

\* mink(data, n)
CallMink ==
    \E n \in KVals :
        LET r == mink(data, n)
        IN /\ data' = r.arr
           /\ res' = r.ret
           /\ op' = "mink"
           /\ kArg' = n
           /\ UNCHANGED <<argA, argB, overflow_checks>>

Next == CallArrayMax \/ CallArrayMin \/ CallBounds \/ CallMaxk \/ CallMink

Spec == Init /\ [][Next]_vars

\* ------------------------------------------------------------------ pairwise calls
InitPair ==
    /\ data = <<>>
    /\ overflow_checks \in BOOLEAN
    /\ kArg = 0
    /\ argA = NoScalar
    /\ argB = NoScalar
    /\ op = "none"
    /\ res = NoResult

\* max(x, y)
CallGenMax ==
    \E x \in Dynamics, y \in Dynamics :
        /\ argA' = x
        /\ argB' = y
        /\ res' = gen_max(x, y)
        /\ op' = "gen_max"
        /\ UNCHANGED <<data, kArg, overflow_checks>>

\* min(x, y)
CallGenMin ==
    \E x \in Dynamics, y \in Dynamics :
        /\ argA' = x
        /\ argB' = y
        /\ res' = gen_min(x, y)
        /\ op' = "gen_min"
        /\ UNCHANGED <<data, kArg, overflow_checks>>

NextPair == CallGenMax \/ CallGenMin

SpecPair == InitPair /\ [][NextPair]_vars

\* ------------------------------------------------------------------ vocabulary of the properties
\* The number a numeric Dynamic stands for, in halves.
Num(d) == IF d.tag = "INT" THEN 2 * d.n ELSE d.n

IsNumber(d) == d.tag = "INT" \/ (d.tag = "FLOAT" /\ ~d.nan)

Elems(s) == {s[i] : i \in DOMAIN s}

Count(s, x) == Cardinality({i \in DOMAIN s : s[i] = x})

\* A non-empty sequence of integers only, or of non-NaN floats only.
Valid(s) ==
    /\ Len(s) >= 1
    /\ \A i \in DOMAIN s : IsNumber(s[i]) /\ s[i].tag = s[1].tag

Ascending(v) == \A i \in 1 .. (Len(v) - 1) : Num(v[i]) <= Num(v[i + 1])

\* v holds the largest Len(v) elements of s, duplicates counted.
KLargest(v, s) ==
    LET t == Num(v[1])
    IN \A x \in Elems(s) \cup Elems(v) :
           /\ Num(x) > t => Count(v, x) = Count(s, x)
           /\ Num(x) = t => Count(v, x) <= Count(s, x)
           /\ Num(x) < t => Count(v, x) = 0

\* v holds the smallest Len(v) elements of s, duplicates counted.
KSmallest(v, s) ==
    LET t == Num(v[Len(v)])
    IN \A x \in Elems(s) \cup Elems(v) :
           /\ Num(x) < t => Count(v, x) = Count(s, x)
           /\ Num(x) = t => Count(v, x) <= Count(s, x)
           /\ Num(x) > t => Count(v, x) = 0

IsTypeError(r) == r.st = "Err" /\ r.kind = "ErrorArithmetic" /\ r.why = TypeErrorMsg
IsRangeError(r) == r.st = "Err" /\ r.kind = "RangeError"
IsEmptyInputError(r) == r.st = "Err" /\ r.kind = "EmptyInputError"

C2_SelectsKExtremes ==
    (op \in {"maxk", "mink"} /\ Valid(data) /\ 0 < kArg /\ kArg <= Len(data)) =>
        /\ res.st = "Ok"
        /\ res.kind = "array"
        /\ Len(res.val) = kArg
        /\ Ascending(res.val)
        /\ \A x \in Elems(res.val) : x.tag = data[1].tag
        /\ op = "maxk" => KLargest(res.val, data)
        /\ op = "mink" => KSmallest(res.val, data)

C2_Witness ==
    /\ op = "maxk"
    /\ Valid(data)
    /\ Len(data) >= 3
    /\ kArg = 2
    /\ Num(data[1]) > Num(data[2])
    /\ data[1] = data[3]
    /\ res = OkArray(<<data[1], data[3]>>)

\* ------------------------------------------------------------------ C3
\* C3: for a valid sequence, bounds returns the 2-element sequence
\* [min, max]: its least element first and its greatest element second.
C3_BoundsIsMinThenMax ==
    (op = "bounds" /\ Valid(data)) =>
        /\ res.st = "Ok"
        /\ res.kind = "array"
        /\ Len(res.val) = 2
        /\ res.val = array_min(data).ret.val \o array_max(data).ret.val
        /\ res.val[1] \in Elems(data)
        /\ res.val[2] \in Elems(data)
        /\ \A i \in DOMAIN data :
               Num(res.val[1]) <= Num(data[i]) /\ Num(data[i]) <= Num(res.val[2])

C3_Witness ==
    /\ op = "bounds"
    /\ Valid(data)
    /\ Len(data) >= 3
    /\ Num(data[2]) > Num(data[1])
    /\ Num(data[1]) > Num(data[3])
    /\ res = OkArray(<<data[3], data[2]>>)

\* ------------------------------------------------------------------ C4
\* C4: for every pair of numeric scalars, mixed integer / float pairs
\* included, the pairwise max returns the greater and the pairwise min the
\* lesser, as max / min of the 2-element sequence do, and without faulting.
C4_PairwiseAcceptsEveryNumericPair ==
    (op \in {"gen_max", "gen_min"} /\ IsNumber(argA) /\ IsNumber(argB)) =>
        /\ res.st = "Ok"
        /\ res.kind = "scalar"
        /\ res.val[1] \in {argA, argB}
        /\ op = "gen_max" =>
               /\ Num(res.val[1]) >= Num(argA)
               /\ Num(res.val[1]) >= Num(argB)
               /\ res = array_max(<<argA, argB>>).ret
        /\ op = "gen_min" =>
               /\ Num(res.val[1]) <= Num(argA)
               /\ Num(res.val[1]) <= Num(argB)
               /\ res = array_min(<<argA, argB>>).ret

\* ------------------------------------------------------------------ C5
\* C5: on a sequence whose elements are neither integers nor floats, every
\* operation ends in a TypeError returned to the caller, never in a fault and
\* never in a result.
C5_NonNumericIsTypeError ==
    (op # "none" /\ Len(data) >= 1 /\ \A i \in DOMAIN data : data[i].tag = "STR") =>
        IsTypeError(res)

\* ------------------------------------------------------------------ C6
\* C6: on a non-empty homogeneous numeric sequence, maxk and mink end in a
\* RangeError when k <= 0 or k > length, and return no sequence.
C6_BadKIsRangeError ==
    (op \in {"maxk", "mink"} /\ Valid(data) /\ (kArg <= 0 \/ kArg > Len(data))) =>
        IsRangeError(res)

\* ------------------------------------------------------------------ C7
\* C7: on a sequence with zero elements, max, min, bounds, maxk and mink end
\* in an EmptyInputError, not in an out-of-bounds fault.
C7_EmptyIsEmptyInputError ==
    (op # "none" /\ Len(data) = 0) => IsEmptyInputError(res)

\* ------------------------------------------------------------------ C8
\* C8: on a non-empty homogeneous numeric sequence, maxk with k = 1 returns
\* the one-element sequence [max] and mink with k = 1 returns [min].
C8_KOneIsExtreme ==
    (op \in {"maxk", "mink"} /\ kArg = 1 /\ Valid(data)) =>
        /\ op = "maxk" => res = OkArray(array_max(data).ret.val)
        /\ op = "mink" => res = OkArray(array_min(data).ret.val)
        /\ Len(res.val) = 1

C8_Witness ==
    /\ op = "mink"
    /\ kArg = 1
    /\ Valid(data)
    /\ Len(data) >= 3
    /\ Num(data[1]) > Num(data[2])
    /\ Num(data[3]) > Num(data[1])
    /\ res = OkArray(<<data[2]>>)

\* ------------------------------------------------------------------ C9
\* C9: a call of max, min, bounds, maxk or mink, whether it ends in a result
\* or not, leaves the input sequence with the same elements in the same order,
\* and the same call made again ends the same way.
C9_InputUnchanged ==
    [][/\ data' = data
       /\ (op' = op /\ kArg' = kArg) => res' = res]_vars

C9_Witness ==
    /\ op = "maxk"
    /\ kArg = 2
    /\ Len(data) >= 3
    /\ Valid(data)
    /\ Num(data[1]) > Num(data[2])
    /\ Num(data[2]) > Num(data[3])
    /\ res = OkArray(<<data[2], data[1]>>)

\* ------------------------------------------------------------------ C10
\* C10: max, min, maxk and mink classify by element 0 alone.  A non-numeric
\* element 0 gives the TypeError whatever follows it; a numeric element 0 never
\* gives the TypeError, any result has the kind of element 0, and a later
\* element of another kind makes the call fault on unwrapping its extraction.
C10_ClassifiesByFirstElement ==
    (op \in {"max", "min", "maxk", "mink"} /\ Len(data) >= 1) =>
        /\ ~(is_f64(data[1]) \/ is_i64(data[1])) => IsTypeError(res)
        /\ (is_f64(data[1]) \/ is_i64(data[1])) =>
               /\ ~IsTypeError(res)
               /\ \A x \in Elems(res.val) : x.tag = data[1].tag
               /\ (\E i \in DOMAIN data : data[i].tag # data[1].tag) =>
                      res = Panic(PanicUnwrapErr)

C10_Witness ==
    /\ op = "maxk"
    /\ kArg = 1
    /\ Len(data) >= 3
    /\ is_i64(data[1])
    /\ is_i64(data[2])
    /\ data[3].tag = "STR"
    /\ res = Panic(PanicUnwrapErr)

=============================================================================
